---- MODULE Spec2Model ----
(***************************************************************************)
(* A model of assignment2.py: download a CSV text, parse it into a table   *)
(* id -> (name, birthday), then answer interactive lookups until a         *)
(* non-positive integer is entered.                                        *)
(*                                                                         *)
(* Text is modelled as a sequence of one-character strings, so that        *)
(* splitlines, the csv split, int(), str(), strptime and strftime are      *)
(* computed on characters as the Python code computes them.                *)
(***************************************************************************)
EXTENDS Integers, Sequences, FiniteSets, TLC

VARIABLES
    pc,          \* position in main / processData
    url,         \* main's argument
    csvData,     \* text returned by downloadData (Option)
    reader,      \* the csv.reader: the rows of its lines, how many it yielded
    line_num,    \* enumerate(reader, start=1) counter of the last row read
    data_dict,   \* processData's local table
    personData,  \* main's table (Option: unbound until processData returns)
    exc,         \* exception propagating to main's handler ("-" when none)
    log,         \* entries written to errors.log
    stdout,      \* lines printed
    consumed     \* lines read by input(), oldest first

vars == <<pc, url, csvData, reader, line_num, data_dict, personData, exc,
          log, stdout, consumed>>

----------------------------------------------------------------------------
\* Bounds of the model.

\* Most data rows (lines after the header) a downloaded text holds.
MaxRows == 3

\* Most lines read from the prompt in one run.
MaxInputs == 2

----------------------------------------------------------------------------
\* Generic helpers.

None == << >>

Some(v) == <<v>>

Last(s) == s[Len(s)]

Front(s) == SubSeq(s, 1, Len(s) - 1)

SeqsUpTo(S, n) == UNION {[1..k -> S] : k \in 0..n}

Digits == {"0", "1", "2", "3", "4", "5", "6", "7", "8", "9"}

DigitChars == <<"0", "1", "2", "3", "4", "5", "6", "7", "8", "9">>

DigitVal(c) == (CHOOSE i \in 1..10 : DigitChars[i] = c) - 1

\* str.split(sep) on a one-character separator: the pieces between separators,
\* empty pieces kept.  Piece k lies between the (k-1)-th and the k-th
\* separator, the ends of s standing for separators 0 and last+1.
SplitOn(s, sep) ==
    LET seps   == {i \in 1..Len(s) : s[i] = sep}
        nth(j) == IF j = 0 THEN 0
                  ELSE IF j > Cardinality(seps) THEN Len(s) + 1
                  ELSE CHOOSE p \in seps :
                          Cardinality({q \in seps : q < p}) = j - 1
    IN  [k \in 1..(Cardinality(seps) + 1) |->
            SubSeq(s, nth(k - 1) + 1, nth(k) - 1)]

\* str.splitlines(): split at line ends, no empty last line after a final
\* line end, no line at all for the empty text.
SplitLines(text) ==
    LET parts == SplitOn(text, "\n")
    IN  IF Last(parts) = << >> THEN Front(parts) ELSE parts

\* One row of csv.reader: an empty line is the empty row, any other line is
\* split at its commas (the modelled texts hold no quote characters).
CsvRow(line) == IF line = << >> THEN << >> ELSE SplitOn(line, ",")

----------------------------------------------------------------------------
\* int(text) and str(number).

RECURSIVE StripLeft(_)
StripLeft(s) ==
    IF s # << >> /\ Head(s) = " " THEN StripLeft(Tail(s)) ELSE s

RECURSIVE StripRight(_)
StripRight(s) ==
    IF s # << >> /\ Last(s) = " " THEN StripRight(Front(s)) ELSE s

Strip(s) == StripRight(StripLeft(s))

\* The digits of an int() literal: digits, single underscores only between
\* digits.
IsDigitBody(b) ==
    /\ b # << >>
    /\ \A i \in 1..Len(b) : b[i] \in Digits \cup {"_"}
    /\ Head(b) \in Digits
    /\ Last(b) \in Digits
    /\ \A i \in 1..(Len(b) - 1) : ~(b[i] = "_" /\ b[i + 1] = "_")

RECURSIVE DigitsValue(_)
DigitsValue(b) ==
    IF b = << >> THEN 0
    ELSE IF Last(b) = "_" THEN DigitsValue(Front(b))
    ELSE 10 * DigitsValue(Front(b)) + DigitVal(Last(b))

\* int(s): [ok |-> FALSE] stands for ValueError.
PyInt(s) ==
    LET t    == Strip(s)
        neg  == t # << >> /\ Head(t) = "-"
        sgn  == t # << >> /\ Head(t) \in {"-", "+"}
        body == IF sgn THEN Tail(t) ELSE t
    IN  IF IsDigitBody(body)
        THEN [ok |-> TRUE,
              val |-> IF neg THEN 0 - DigitsValue(body) ELSE DigitsValue(body)]
        ELSE [ok |-> FALSE, val |-> 0]

RECURSIVE NatStr(_)
NatStr(n) ==
    IF n < 10 THEN <<DigitChars[n + 1]>>
    ELSE NatStr(n \div 10) \o <<DigitChars[(n % 10) + 1]>>

\* str(n)
PyStr(n) == IF n < 0 THEN <<"-">> \o NatStr(0 - n) ELSE NatStr(n)

----------------------------------------------------------------------------
\* datetime.strptime(text, '%d/%m/%Y') and birthday.strftime('%Y-%m-%d').

AllDigits(s) == \A i \in 1..Len(s) : s[i] \in Digits

\* %d : 3[0-1] | [1-2]\d | 0[1-9] | [1-9] | " "[1-9]
IsDayToken(s) ==
    \/ Len(s) = 1 /\ s[1] \in Digits \ {"0"}
    \/ /\ Len(s) = 2
       /\ \/ s[1] = "3" /\ s[2] \in {"0", "1"}
          \/ s[1] \in {"1", "2"} /\ s[2] \in Digits
          \/ s[1] \in {"0", " "} /\ s[2] \in Digits \ {"0"}

\* %m : 1[0-2] | 0[1-9] | [1-9]
IsMonthToken(s) ==
    \/ Len(s) = 1 /\ s[1] \in Digits \ {"0"}
    \/ /\ Len(s) = 2
       /\ \/ s[1] = "1" /\ s[2] \in {"0", "1", "2"}
          \/ s[1] = "0" /\ s[2] \in Digits \ {"0"}

\* %Y : \d\d\d\d
IsYearToken(s) == Len(s) = 4 /\ AllDigits(s)

IsLeap(y) == (y % 4 = 0) /\ ((y % 100 # 0) \/ (y % 400 = 0))

DaysInMonth(y, m) ==
    IF m = 2 THEN (IF IsLeap(y) THEN 29 ELSE 28)
    ELSE IF m \in {4, 6, 9, 11} THEN 30 ELSE 31

\* strptime: [ok |-> FALSE] stands for ValueError (the text does not match
\* the format, or names no day of the calendar).
Strptime(text) ==
    LET parts == SplitOn(text, "/")
        bad   == [ok |-> FALSE, date |-> [year |-> 0, month |-> 0, day |-> 0]]
    IN  IF Len(parts) # 3 THEN bad
        ELSE IF ~(IsDayToken(parts[1]) /\ IsMonthToken(parts[2])
                  /\ IsYearToken(parts[3])) THEN bad
        ELSE LET d == DigitsValue(StripLeft(parts[1]))
                 m == DigitsValue(parts[2])
                 y == DigitsValue(parts[3])
             IN  IF y < 1 \/ d > DaysInMonth(y, m) THEN bad
                 ELSE [ok |-> TRUE, date |-> [year |-> y, month |-> m, day |-> d]]

RECURSIVE ZeroPad(_, _)
ZeroPad(s, width) == IF Len(s) < width THEN ZeroPad(<<"0">> \o s, width) ELSE s

\* Mutant of Strftime: the format '%d-%m-%Y'.
Strftime_DayFirst(date) ==
    ZeroPad(NatStr(date.day), 2) \o <<"-">> \o ZeroPad(NatStr(date.month), 2)
        \o <<"-">> \o ZeroPad(NatStr(date.year), 4)

\* strftime('%Y-%m-%d')
Strftime(date) ==
    ZeroPad(NatStr(date.year), 4) \o <<"-">> \o ZeroPad(NatStr(date.month), 2)
        \o <<"-">> \o ZeroPad(NatStr(date.day), 2)

----------------------------------------------------------------------------
\* Inputs: the URL, the texts a download can return, the lines typed at the
\* prompt.

UrlA == <<"h", "t", "t", "p", ":", "/", "/", "a">>

Urls == {UrlA}

\* "id,name,birthday"
HeaderLine == <<"i", "d", ",", "n", "a", "m", "e", ",", "b", "i", "r", "t", "h", "d", "a", "y">>

\* "7,A,15/06/1990" : a valid row
LineGood7A == <<"7", ",", "A", ",", "1", "5", "/", "0", "6", "/", "1", "9", "9", "0">>

\* "7,B,5/6/2000" : a valid row, same identifier, date without zero padding
LineGood7B == <<"7", ",", "B", ",", "5", "/", "6", "/", "2", "0", "0", "0">>

\* "007,C,29/02/2000" : a valid row (leap day), identifier with leading zeros
LineGood007C == <<"0", "0", "7", ",", "C", ",", "2", "9", "/", "0", "2", "/", "2", "0", "0", "0">>

\* "7,C,29/02/2001" : matches the format but is no day of the calendar
LineBad7C == <<"7", ",", "C", ",", "2", "9", "/", "0", "2", "/", "2", "0", "0", "1">>

\* "2,B,31/13/2000" : month 13
LineBad2B == <<"2", ",", "B", ",", "3", "1", "/", "1", "3", "/", "2", "0", "0", "0">>

\* "-3,D, 1/12/1999,x" : a valid row of four columns, a signed identifier,
\* a day padded with a space
LineGoodNeg3D == <<"-", "3", ",", "D", ",", " ", "1", "/", "1", "2", "/", "1", "9", "9", "9", ",", "x">>

\* "7,A" : a row of two columns
LineShort == <<"7", ",", "A">>

\* "" : an empty line
LineEmpty == << >>

DataLines ==
    {LineGood7A, LineGood7B, LineGood007C, LineGoodNeg3D, LineBad7C,
     LineBad2B, LineShort, LineEmpty}

RECURSIVE JoinLines(_)
JoinLines(ls) ==
    IF ls = << >> THEN << >> ELSE Head(ls) \o <<"\n">> \o JoinLines(Tail(ls))

\* The empty text, and every text of a header line and at most MaxRows lines
\* of DataLines, each line ended by a line end.
Texts ==
    {<< >>} \cup
    {JoinLines(<<HeaderLine>> \o rows) : rows \in SeqsUpTo(DataLines, MaxRows)}

\* Lines typed at the prompt: "7", "007", " 2 ", "0", "-3", "abc"
Inputs ==
    {<<"7">>, <<"0", "0", "7">>, <<" ", "2", " ">>, <<"0">>, <<"-", "3">>,
     <<"a", "b", "c">>}

\* Exceptions urlopen / read / decode raise in downloadData.
DownloadErrors == {"URLError", "UnicodeDecodeError"}

----------------------------------------------------------------------------
\* Messages: the f-string and the values interpolated into it.  exc names the
\* exception whose str() is interpolated as {e}, "-" when the f-string has
\* none.

Msg(fmt, args, e) == [fmt |-> fmt, args |-> args, exc |-> e]

MsgRunning(u) == Msg("Running main with URL = {url}...", <<u>>, "-")

MsgDownloadError(u, e) ==
    Msg("Error downloading data from URL: {url} - {e}", <<u>>, e)

\* Mutant of MsgRowError: the line number counted from 0.
MsgRowError_FromZero(n, id_, text) ==
    Msg("Error processing line #{line_num} for ID #{id_}: {row[2]}",
        <<PyStr(n - 1), id_, text>>, "-")

MsgRowError(n, id_, text) ==
    Msg("Error processing line #{line_num} for ID #{id_}: {row[2]}",
        <<PyStr(n), id_, text>>, "-")

MsgFailed(e) == Msg("Failed to process data: {e}", << >>, e)

MsgExiting == Msg("Exiting the program.", << >>, "-")

MsgInvalid == Msg("Please enter a valid integer ID.", << >>, "-")

MsgPerson(id, name, birthday) ==
    Msg("Person #{id} is {name} with a birthday of {birthday.strftime('%Y-%m-%d')}.",
        <<id, name, Strftime(birthday)>>, "-")

MsgNotFound(id) == Msg("No person found with ID #{id}.", <<id>>, "-")

----------------------------------------------------------------------------
\* Dictionaries: functions from the keys present.

EmptyDict == << >>

\* Mutant of DictPut: a key already present keeps its value.
DictPut_KeepFirst(d, k, v) ==
    [x \in (DOMAIN d) \cup {k} |-> IF x \in DOMAIN d THEN d[x] ELSE v]

\* data_dict[k] = v
DictPut(d, k, v) ==
    [x \in (DOMAIN d) \cup {k} |-> IF x = k THEN v ELSE d[x]]

\* d.get(k): None when k is no key
DictGet(d, k) == IF k \in DOMAIN d THEN Some(d[k]) ELSE None

\* Truth value of the result of d.get(k): None is false, a tuple is true
\* unless it is empty.
Truthy(opt) == opt # None /\ Len(opt[1]) > 0

----------------------------------------------------------------------------
\* The program.

\* csv.reader(lines): nothing yielded yet.  The row of each line is computed
\* here; the code computes it when the row is asked for, from that line alone.
NewReader(lines) ==
    [rows |-> [i \in 1..Len(lines) |-> CsvRow(lines[i])], pos |-> 0]

\* Before processData creates its reader.
NoReader == NewReader(<< >>)

\* The reader has no row left: next(reader) raises StopIteration, a for loop
\* over it ends.
Exhausted(r) == r.pos = Len(r.rows)

\* The row next(reader) yields.
NextRow(r) == r.rows[r.pos + 1]

\* The reader after next(reader).
Advance(r) == [r EXCEPT !.pos = r.pos + 1]

Init ==
    /\ pc = "main"
    /\ url \in Urls
    /\ csvData = None
    /\ reader = NoReader
    /\ line_num = 0
    /\ data_dict = EmptyDict
    /\ personData = None
    /\ exc = "-"
    /\ log = << >>
    /\ stdout = << >>
    /\ consumed = << >>

\* main: the first print.
MainBegin ==
    /\ pc = "main"
    /\ stdout' = Append(stdout, MsgRunning(url))
    /\ pc' = "downloadData"
    /\ UNCHANGED <<url, csvData, reader, line_num, data_dict, personData, exc,
                   log, consumed>>

\* downloadData returns the text.
DownloadOk ==
    /\ pc = "downloadData"
    /\ \E text \in Texts : csvData' = Some(text)
    /\ pc' = "processData"
    /\ UNCHANGED <<url, reader, line_num, data_dict, personData, exc, log,
                   stdout, consumed>>

\* downloadData fails: one log entry, and the exception is raised again.
DownloadFail ==
    /\ pc = "downloadData"
    /\ \E e \in DownloadErrors :
          /\ log' = Append(log, MsgDownloadError(url, e))
          /\ exc' = e
    /\ pc' = "except"
    /\ UNCHANGED <<url, csvData, reader, line_num, data_dict, personData,
                   stdout, consumed>>

\* Mutant of ProcessHeader: a missing header is not an error
\* (next(reader, None)).
ProcessHeader_NoHeaderOk ==
    /\ pc = "processData"
    /\ LET r == NewReader(SplitLines(csvData[1]))
       IN  reader' = IF Exhausted(r) THEN r ELSE Advance(r)
    /\ data_dict' = EmptyDict
    /\ pc' = "loop"
    /\ line_num' = 0
    /\ UNCHANGED <<url, csvData, personData, exc, log, stdout, consumed>>

\* processData up to the loop: the empty table, the reader, next(reader).
ProcessHeader ==
    /\ pc = "processData"
    /\ LET r == NewReader(SplitLines(csvData[1]))
       IN  IF Exhausted(r)
           THEN /\ reader' = r
                /\ exc' = "StopIteration"
                /\ pc' = "except"
           ELSE /\ reader' = Advance(r)
                /\ exc' = exc
                /\ pc' = "loop"
    /\ data_dict' = EmptyDict
    /\ line_num' = 0
    /\ UNCHANGED <<url, csvData, personData, log, stdout, consumed>>

\* Mutant of RowStep: a row whose date does not parse is stored with an
\* empty date instead of being skipped.
RowStep_StoreBadDate(row, n, d, lg) ==
    IF Len(row) < 3
    THEN [exc |-> "IndexError", data_dict |-> EmptyDict, log |-> lg]
    ELSE LET p == Strptime(row[3])
         IN  IF p.ok
             THEN [exc |-> "-", data_dict |-> DictPut(d, row[1], <<row[2], p.date>>),
                   log |-> lg]
             ELSE [exc |-> "-", data_dict |-> DictPut(d, row[1], <<row[2], p.date>>),
                   log |-> Append(lg, MsgRowError(n, row[1], row[3]))]

\* Mutant of RowStep: a row whose date does not parse is skipped without a
\* log entry.
RowStep_SilentSkip(row, n, d, lg) ==
    IF Len(row) < 3
    THEN [exc |-> "IndexError", data_dict |-> EmptyDict, log |-> lg]
    ELSE LET p == Strptime(row[3])
         IN  IF p.ok
             THEN [exc |-> "-", data_dict |-> DictPut(d, row[1], <<row[2], p.date>>),
                   log |-> lg]
             ELSE [exc |-> "-", data_dict |-> d, log |-> lg]

\* Mutant of RowStep: a row of fewer than 3 columns is logged and skipped
\* like a row whose date does not parse.
RowStep_SkipShort(row, n, d, lg) ==
    IF Len(row) < 3
    THEN [exc |-> "-", data_dict |-> d,
          log |-> Append(lg, MsgRowError(n, << >>, << >>))]
    ELSE LET p == Strptime(row[3])
         IN  IF p.ok
             THEN [exc |-> "-", data_dict |-> DictPut(d, row[1], <<row[2], p.date>>),
                   log |-> lg]
             ELSE [exc |-> "-", data_dict |-> d,
                   log |-> Append(lg, MsgRowError(n, row[1], row[3]))]

\* The body of processData's loop for row number n, table d and log lg:
\* the exception it raises ("-" when none), the table and the log after it.
\* row[0], row[1] and row[2] of the code are row[1], row[2] and row[3] here.
\* A row of fewer than 3 columns raises IndexError at one of them, outside
\* the try or not caught by it, and the frame with the table is dropped.
RowStep(row, n, d, lg) ==
    IF Len(row) < 3
    THEN [exc |-> "IndexError", data_dict |-> EmptyDict, log |-> lg]
    ELSE LET id_  == row[1]
             name == row[2]
             p    == Strptime(row[3])
         IN  IF p.ok
             THEN [exc |-> "-", data_dict |-> DictPut(d, id_, <<name, p.date>>),
                   log |-> lg]
             ELSE [exc |-> "-", data_dict |-> d,
                   log |-> Append(lg, MsgRowError(n, id_, row[3]))]

\* One pass of processData's loop: the reader yields a row, enumerate counts
\* it, the body runs.
ProcessRow ==
    /\ pc = "loop"
    /\ ~Exhausted(reader)
    /\ LET r == RowStep(NextRow(reader), line_num + 1, data_dict, log)
       IN  /\ data_dict' = r.data_dict
           /\ log' = r.log
           /\ exc' = r.exc
           /\ pc' = IF r.exc = "-" THEN "loop" ELSE "except"
    /\ line_num' = line_num + 1
    /\ reader' = Advance(reader)
    /\ UNCHANGED <<url, csvData, personData, stdout, consumed>>

\* processData returns; main binds personData.
ProcessReturn ==
    /\ pc = "loop"
    /\ Exhausted(reader)
    /\ personData' = Some(data_dict)
    /\ pc' = "Prompting"
    /\ UNCHANGED <<url, csvData, reader, line_num, data_dict, exc, log,
                   stdout, consumed>>

\* Mutant of MainExcept: the handler prints and falls through to the loop
\* with an empty table.
MainExcept_FallThrough ==
    /\ pc = "except"
    /\ stdout' = Append(stdout, MsgFailed(exc))
    /\ personData' = Some(EmptyDict)
    /\ pc' = "Prompting"
    /\ UNCHANGED <<url, csvData, reader, line_num, data_dict, exc, log,
                   consumed>>

\* main's handler of the download / parse phase: print, return.
MainExcept ==
    /\ pc = "except"
    /\ stdout' = Append(stdout, MsgFailed(exc))
    /\ pc' = "returned"
    /\ UNCHANGED <<url, csvData, reader, line_num, data_dict, personData, exc,
                   log, consumed>>

\* What displayPerson prints.
displayPerson(id, table) ==
    LET person == DictGet(table, id)
    IN  IF Truthy(person)
        THEN MsgPerson(id, person[1][1], person[1][2])
        ELSE MsgNotFound(id)

\* Mutant of LoopStep: only a negative number ends the loop.
LoopStep_NegativeOnly(user_input, table) ==
    LET user_id == PyInt(user_input)
    IN  IF ~user_id.ok
        THEN [print |-> MsgInvalid, pc |-> "Prompting"]
        ELSE IF user_id.val < 0
        THEN [print |-> MsgExiting, pc |-> "Terminated"]
        ELSE [print |-> displayPerson(PyStr(user_id.val), table),
              pc |-> "Prompting"]

\* Mutant of LoopStep: the table is queried with the text typed, not with
\* str(user_id).
LoopStep_RawKey(user_input, table) ==
    LET user_id == PyInt(user_input)
    IN  IF ~user_id.ok
        THEN [print |-> MsgInvalid, pc |-> "Prompting"]
        ELSE IF user_id.val <= 0
        THEN [print |-> MsgExiting, pc |-> "Terminated"]
        ELSE [print |-> displayPerson(Strip(user_input), table),
              pc |-> "Prompting"]

\* What one pass of main's loop prints for the line read, and where it goes.
LoopStep(user_input, table) ==
    LET user_id == PyInt(user_input)
    IN  IF ~user_id.ok
        THEN [print |-> MsgInvalid, pc |-> "Prompting"]
        ELSE IF user_id.val <= 0
        THEN [print |-> MsgExiting, pc |-> "Terminated"]
        ELSE [print |-> displayPerson(PyStr(user_id.val), table),
              pc |-> "Prompting"]

\* One pass of main's loop.
Prompt ==
    /\ pc = "Prompting"
    /\ Len(consumed) < MaxInputs
    /\ \E user_input \in Inputs :
          LET r == LoopStep(user_input, personData[1])
          IN  /\ consumed' = Append(consumed, user_input)
              /\ stdout' = Append(stdout, r.print)
              /\ pc' = r.pc
    /\ UNCHANGED <<url, csvData, reader, line_num, data_dict, personData, exc,
                   log>>

Next ==
    \/ MainBegin
    \/ DownloadOk
    \/ DownloadFail
    \/ ProcessHeader
    \/ ProcessRow
    \/ ProcessReturn
    \/ MainExcept
    \/ Prompt

Spec == Init /\ [][Next]_vars

\* The download / parse phase alone: main up to the first prompt.  The
\* properties of downloadData and processData are checked under it.
LoadNext ==
    \/ MainBegin
    \/ DownloadOk
    \/ DownloadFail
    \/ ProcessHeader
    \/ ProcessRow
    \/ ProcessReturn
    \/ MainExcept

LoadSpec == Init /\ [][LoadNext]_vars

----------------------------------------------------------------------------
\* Vocabulary of the properties.

\* The data rows of the downloaded text: the rows of the reader after the
\* header (none before processData has made its reader).
DataRows == SubSeq(reader.rows, 2, Len(reader.rows))

\* processData was called on a text without lines.
CalledOnNoLines ==
    csvData # None /\ pc # "processData" /\ SplitLines(csvData[1]) = << >>

ShortRow(row) == Len(row) < 3

GoodRow(row) == Len(row) >= 3 /\ Strptime(row[3]).ok

BadDateRow(row) == Len(row) >= 3 /\ ~Strptime(row[3]).ok

\* The entry a good row stands for.
EntryOf(row) == <<row[2], Strptime(row[3]).date>>

IsCalendarDate(d) ==
    /\ d.year >= 1
    /\ d.month \in 1..12
    /\ d.day \in 1..DaysInMonth(d.year, d.month)

\* The j-th smallest element of a set of numbers.
NthOf(S, j) == CHOOSE i \in S : Cardinality({q \in S : q < i}) = j - 1

\* processData has returned its table.
Returned == pc \in {"Prompting", "Terminated"}

RowErrorFmt == "Error processing line #{line_num} for ID #{id_}: {row[2]}"

PersonFmt ==
    "Person #{id} is {name} with a birthday of {birthday.strftime('%Y-%m-%d')}."

NotFoundFmt == "No person found with ID #{id}."

FailedFmt == "Failed to process data: {e}"

DownloadErrorFmt == "Error downloading data from URL: {url} - {e}"

----------------------------------------------------------------------------
\* C1: every entry of the table, while it is built and when it is returned,
\* is the identifier, name and parsed date of a data row read so far whose
\* third field parsed as day/month/4-digit-year; its date is a day of the
\* calendar, never a placeholder.
C1_EntriesAreParsedRows ==
    LET rows == DataRows
        tbl  == IF personData # None THEN personData[1] ELSE data_dict
        upto == IF personData # None THEN Len(rows) ELSE line_num
    IN  \A k \in DOMAIN tbl :
            /\ \E i \in 1..upto :
                  /\ Len(rows[i]) >= 3
                  /\ rows[i][1] = k
                  /\ LET p == Strptime(rows[i][3])
                     IN  p.ok /\ tbl[k] = <<rows[i][2], p.date>>
            /\ Len(tbl[k]) = 2
            /\ IsCalendarDate(tbl[k][2])

\* A returned table with an entry, from a text that also holds a row whose
\* date does not parse.
C1_Witness ==
    /\ Returned
    /\ DOMAIN personData[1] # {}
    /\ \E i \in 1..Len(DataRows) : BadDateRow(DataRows[i])

\* C2: the log of a parse holds, in order, exactly one entry for each row
\* read so far that has at least 3 columns and a date that does not parse,
\* carrying the row's number (1 for the first row after the header) and its
\* identifier; such a row does not end the parse (the parse is left with an
\* exception only at a row of fewer than 3 columns), and a parse that
\* returns has read every row.
C2_BadDateRowsLoggedAndSkipped ==
    LET rows == DataRows
        bad  == {i \in 1..line_num : BadDateRow(rows[i])}
    IN  /\ exc \notin DownloadErrors =>
              /\ Len(log) = Cardinality(bad)
              /\ \A j \in 1..Len(log) :
                    LET i == NthOf(bad, j)
                    IN  /\ log[j].fmt = RowErrorFmt
                        /\ PyInt(log[j].args[1]) = [ok |-> TRUE, val |-> i]
                        /\ log[j].args[2] = rows[i][1]
                        /\ log[j].args[3] = rows[i][3]
        /\ Returned => line_num = Len(rows)
        /\ exc = "IndexError" => ShortRow(rows[line_num])
        /\ (line_num >= 1 /\ BadDateRow(rows[line_num])) =>
              pc \in {"loop", "Prompting", "Terminated"}

\* A returned parse that logged two rows and stored a row read after a
\* logged one.
C2_Witness ==
    /\ Returned
    /\ Len(log) = 2
    /\ \E i, j \in 1..Len(DataRows) :
          /\ i < j
          /\ BadDateRow(DataRows[i])
          /\ GoodRow(DataRows[j])
          /\ DataRows[j][1] \in DOMAIN personData[1]

\* C3 as stated: for an identifier carried by several data rows, the returned
\* table holds the name and birthdate of the last row carrying it.
C3_LastOccurrenceWins ==
    LET rows == DataRows
        tbl  == personData[1]
    IN  Returned =>
            \A i, j \in 1..Len(rows) :
                (i < j /\ rows[i][1] = rows[j][1]
                   /\ \A m \in (j + 1)..Len(rows) : rows[m][1] # rows[j][1])
                => /\ rows[j][1] \in DOMAIN tbl
                   /\ tbl[rows[j][1]] = EntryOf(rows[j])

\* C3 amended: for an identifier carried by one or several data rows, the
\* returned table holds the name and birthdate of the last row carrying it
\* whose birthdate parsed, and no entry when none parsed.
C3_LastParsedOccurrenceWins ==
    LET rows == DataRows
        tbl  == personData[1]
    IN  Returned =>
            \A k \in {rows[j][1] : j \in 1..Len(rows)} :
                LET parsed == {i \in 1..Len(rows) : rows[i][1] = k /\ GoodRow(rows[i])}
                IN  IF parsed = {} THEN k \notin DOMAIN tbl
                    ELSE /\ k \in DOMAIN tbl
                         /\ tbl[k] = EntryOf(rows[NthOf(parsed, Cardinality(parsed))])

\* A returned table from a text where two rows with parsed dates carry the
\* same identifier and different names.
C3_Witness ==
    /\ Returned
    /\ \E i, j \in 1..Len(DataRows) :
          /\ i < j
          /\ GoodRow(DataRows[i])
          /\ GoodRow(DataRows[j])
          /\ DataRows[i][1] = DataRows[j][1]
          /\ EntryOf(DataRows[i]) # EntryOf(DataRows[j])
          /\ personData[1][DataRows[j][1]] = EntryOf(DataRows[j])

----------------------------------------------------------------------------
\* Vocabulary of the properties of the lookup loop.

\* The line typed parses as an integer <= 0.
IsSentinel(inp) == PyInt(inp).ok /\ PyInt(inp).val <= 0

\* The line typed parses as an integer > 0.
IsQuery(inp) == PyInt(inp).ok /\ PyInt(inp).val > 0

\* The line printed for the i-th line typed (the first line printed is the
\* one main starts with).
Answer(i) == stdout[i + 1]

\* s is the decimal form of a positive integer: digits, no leading zero.
IsCanonical(s) == s # << >> /\ AllDigits(s) /\ s[1] # "0"

\* s is YYYY-MM-DD for the date d.
IsIsoDate(s, d) ==
    /\ Len(s) = 10
    /\ s[5] = "-"
    /\ s[8] = "-"
    /\ AllDigits(SubSeq(s, 1, 4)) /\ DigitsValue(SubSeq(s, 1, 4)) = d.year
    /\ AllDigits(SubSeq(s, 6, 7)) /\ DigitsValue(SubSeq(s, 6, 7)) = d.month
    /\ AllDigits(SubSeq(s, 9, 10)) /\ DigitsValue(SubSeq(s, 9, 10)) = d.day

----------------------------------------------------------------------------
\* C4: the loop is entered in Prompting with nothing read; a line that parses
\* as an integer <= 0 prints the exit message and is the last line read; a
\* line that parses as an integer > 0 or does not parse as an integer (which
\* prints the invalid-integer message) leaves the loop in Prompting.  So the
\* loop is in Terminated exactly when the last line read parses as an integer
\* <= 0, and no line read before the last does.
C4_LoopEndsAtFirstSentinel ==
    /\ consumed # << >> => Returned
    /\ Returned =>
          /\ Len(stdout) = Len(consumed) + 1
          /\ pc = "Terminated" <=>
                (consumed # << >> /\ IsSentinel(Last(consumed)))
          /\ \A i \in 1..Len(consumed) :
                /\ IsSentinel(consumed[i]) => i = Len(consumed)
                /\ Answer(i) = MsgExiting <=> IsSentinel(consumed[i])
                /\ Answer(i) = MsgInvalid <=> ~PyInt(consumed[i]).ok

\* A loop that ended at its second line, after a line that is no integer.
C4_Witness ==
    /\ pc = "Terminated"
    /\ Len(consumed) = 2
    /\ ~PyInt(consumed[1]).ok
    /\ Answer(1) = MsgInvalid
    /\ Answer(2) = MsgExiting

\* C5: for every line read that parses as an integer n > 0, exactly one line
\* is printed: the found message with the decimal form of n, the name and
\* the date as YYYY-MM-DD of the entry under that decimal form if it is a
\* key of the table, and otherwise the not-found message with the decimal
\* form of n.
C5_LookupPrintsFoundOrNotFound ==
    Returned =>
        /\ Len(stdout) = Len(consumed) + 1
        /\ \A i \in 1..Len(consumed) :
              IsQuery(consumed[i]) =>
                  LET key == PyStr(PyInt(consumed[i]).val)
                      tbl == personData[1]
                      ans == Answer(i)
                  IN  IF key \in DOMAIN tbl
                      THEN /\ ans.fmt = PersonFmt
                           /\ Len(ans.args) = 3
                           /\ ans.args[1] = key
                           /\ ans.args[2] = tbl[key][1]
                           /\ IsIsoDate(ans.args[3], tbl[key][2])
                      ELSE /\ ans.fmt = NotFoundFmt
                           /\ ans.args = <<key>>

\* A run that found an entry whose date was written 5/6/2000 and then did
\* not find another identifier.
C5_Witness ==
    /\ Returned
    /\ Len(consumed) = 2
    /\ Answer(1).fmt = PersonFmt
    /\ Answer(1).args[3] = <<"2", "0", "0", "0", "-", "0", "6", "-", "0", "5">>
    /\ Answer(2).fmt = NotFoundFmt

\* C6: a failure of downloadData or of processData ends the run: main prints
\* one failure message and returns, no table is bound, nothing is read from
\* the prompt and no lookup line is printed.  A row whose date does not parse
\* and a prompt line that is no integer do not end the run.
C6_PhaseFailureIsFatal ==
    LET rows == DataRows
    IN  /\ exc # "-" =>
              /\ pc \in {"except", "returned"}
              /\ personData = None
              /\ consumed = << >>
        /\ pc \in {"except", "returned"} =>
              /\ exc \in DownloadErrors \cup {"StopIteration", "IndexError"}
              /\ exc = "IndexError" => ShortRow(rows[line_num])
              /\ exc = "StopIteration" => Len(reader.rows) = 0
        /\ pc = "returned" =>
              /\ Len(stdout) = 2
              /\ stdout[2].fmt = FailedFmt
              /\ stdout[2].exc = exc
        /\ (line_num >= 1 /\ BadDateRow(rows[line_num])) => exc = "-"
        /\ (consumed # << >> /\ ~PyInt(Last(consumed)).ok) => pc = "Prompting"

\* A run ended by a row of fewer than 3 columns that follows a row stored in
\* the table.
C6_Witness ==
    /\ pc = "returned"
    /\ exc = "IndexError"
    /\ line_num >= 2
    /\ GoodRow(DataRows[1])

\* C7 as stated: every error of the download / parse phase (a download
\* failure, a row whose date does not parse, any failure of processData)
\* has an entry in the log, and a prompt line that is no integer has none.
C7_EveryPhaseErrorLogged ==
    LET bad == {i \in 1..line_num : BadDateRow(DataRows[i])}
    IN  Len(log) = Cardinality(bad) + (IF exc # "-" THEN 1 ELSE 0)

\* C7 amended: the log holds one entry for a download failure, naming the
\* URL and the error, and one entry for every row whose date does not parse;
\* a failure of processData itself (StopIteration at a text without lines,
\* IndexError at a row of fewer than 3 columns) has no entry, and neither has
\* a prompt line that is no integer.
C7_DownloadAndBadDatesLogged ==
    LET bad == {i \in 1..line_num : BadDateRow(DataRows[i])}
    IN  /\ Len(log) =
              Cardinality(bad) + (IF exc \in DownloadErrors THEN 1 ELSE 0)
        /\ exc \in DownloadErrors =>
              /\ log[1].fmt = DownloadErrorFmt
              /\ log[1].args = <<url>>
              /\ log[1].exc = exc
        /\ \A j \in 1..Len(log) : log[j].fmt \in {DownloadErrorFmt, RowErrorFmt}

\* A run ended by a row of fewer than 3 columns, whose log holds only the
\* entry of an earlier row whose date does not parse.
C7_Witness ==
    /\ pc = "returned"
    /\ exc = "IndexError"
    /\ Len(log) = 1
    /\ log[1].fmt = RowErrorFmt

\* C8 as stated: processData on a text without lines fails with a
\* MalformedInputError and returns no table.
C8_NoLinesMalformedInputError ==
    CalledOnNoLines => (exc = "MalformedInputError" /\ personData = None)

\* C8 amended: processData on a text without lines fails with the
\* StopIteration of next(reader), which main handles like any failure of the
\* phase; it returns no table, empty or not, and writes no log entry.
C8_NoLinesStopIteration ==
    /\ CalledOnNoLines
          => /\ exc = "StopIteration"
             /\ pc \in {"except", "returned"}
             /\ personData = None
             /\ log = << >>
    /\ exc = "StopIteration" => CalledOnNoLines

\* The run on the empty text, ended.
C8_Witness ==
    /\ pc = "returned"
    /\ exc = "StopIteration"
    /\ csvData = Some(<< >>)

\* C9: the first data row of fewer than 3 columns (an empty line included)
\* is not logged and skipped: processData fails there with IndexError and
\* returns no table, the entries stored before are dropped, no later row is
\* read, and the log holds what the rows before it wrote.
C9_ShortRowAbortsParse ==
    LET rows == DataRows
    IN  /\ \A i \in 1..(line_num - 1) : ~ShortRow(rows[i])
        /\ (line_num >= 1 /\ ShortRow(rows[line_num])) =>
              /\ exc = "IndexError"
              /\ pc \in {"except", "returned"}
              /\ personData = None
              /\ data_dict = EmptyDict
              /\ reader.pos = line_num + 1
              /\ Len(log) = Cardinality({i \in 1..(line_num - 1) : BadDateRow(rows[i])})
              /\ \A j \in 1..Len(log) :
                    PyInt(log[j].args[1]).val < line_num

\* A parse ended by an empty line that follows a stored row and a logged
\* row.
C9_Witness ==
    /\ exc = "IndexError"
    /\ line_num = 3
    /\ DataRows[3] = << >>
    /\ GoodRow(DataRows[1])
    /\ BadDateRow(DataRows[2])
    /\ Len(log) = 1

\* C10: every entry printed is the entry stored under the decimal form of a
\* positive integer, the one the line typed parses to; so an entry whose
\* identifier is not such a decimal form is printed for no line, and the
\* line "007" is answered with the entry stored under "7" when there is one.
C10_OnlyCanonicalKeysReachable ==
    Returned =>
        \A i \in 1..Len(consumed) :
            LET ans == Answer(i)
                tbl == personData[1]
            IN  /\ ans.fmt = PersonFmt =>
                      /\ IsCanonical(ans.args[1])
                      /\ PyInt(consumed[i]) = [ok |-> TRUE, val |-> DigitsValue(ans.args[1])]
                      /\ ans.args[1] \in DOMAIN tbl
                      /\ ans.args[2] = tbl[ans.args[1]][1]
                      /\ IsIsoDate(ans.args[3], tbl[ans.args[1]][2])
                /\ (consumed[i] = <<"0", "0", "7">> /\ <<"7">> \in DOMAIN tbl) =>
                      /\ ans.fmt = PersonFmt
                      /\ ans.args[1] = <<"7">>
                      /\ ans.args[2] = tbl[<<"7">>][1]

\* A table with entries under "007" and under "7" of different names, and
\* the line "007" answered with the entry under "7".
C10_Witness ==
    /\ Returned
    /\ {<<"7">>, <<"0", "0", "7">>} \subseteq DOMAIN personData[1]
    /\ personData[1][<<"7">>][1] # personData[1][<<"0", "0", "7">>][1]
    /\ \E i \in 1..Len(consumed) :
          /\ consumed[i] = <<"0", "0", "7">>
          /\ Answer(i).args = <<<<"7">>, personData[1][<<"7">>][1],
                                Strftime(personData[1][<<"7">>][2])>>

====
